---- MODULE Spec2Model ----
(***************************************************************************)
(* CodeForge backend: the Convex mutations, queries and HTTP actions that  *)
(* govern users, snippets, comments, stars and execution records.          *)
(*                                                                         *)
(* Every mutation is one action: the handler runs from its first line to   *)
(* its return or throw.  A handler that throws on one of its checks does   *)
(* so before its first write, so such a call leaves the tables as they     *)
(* were.  SpecCascade alone runs deleteSnippet one store call at a time.   *)
(*                                                                         *)
(* Payload fields that no handler branches on (snippet title and code,     *)
(* comment content, execution code/output/error) are stored verbatim by    *)
(* the handlers and are left out of the rows.                              *)
(***************************************************************************)
EXTENDS Integers, Sequences, FiniteSets, Bags, TLC

VARIABLES
    users,        \* table "users", in insertion order
    snippets,     \* table "snippets"
    comments,     \* table "snippetComments"
    stars,        \* table "stars": a bag of rows, so that two rows of one
                  \* (userId, snippetId) pair are two rows
    executions,   \* table "codeExecutions", in insertion order
    nextSnippet,  \* next fresh _id of table "snippets"
    nextComment,  \* next fresh _id of table "snippetComments"
    last,         \* the call handled last: its name, arguments and outcome
    paid,         \* history: the userIds whose row carried the email of an
                  \* order_created event at the time the webhook accepted it
    streak,       \* history: length of the current run of starSnippet calls
                  \* by one caller on one snippet that began with the pair
                  \* unstarred (0 when the last call is not part of a run)
    store,        \* the editor store of one browser tab (isRunning, output,
                  \* error, executionResult) with the position of the
                  \* handleRun call in progress
    inflight,     \* the mutation calls that are between their read and
                  \* their write, in the specifications that run starSnippet
                  \* and syncUser one store call at a time
    cascade       \* the deleteSnippet call that is between two of its store
                  \* calls, in the specification that runs the handler one
                  \* store call at a time; Idle everywhere else

vars == <<users, snippets, comments, stars, executions,
          nextSnippet, nextComment, last, paid, streak, cascade,
          store, inflight>>

-----------------------------------------------------------------------------
(* Bounds of the exploration *)

MaxSnippets == 1     \* snippets ever created
MaxComments == 1     \* comments ever created
MaxStars    == 2     \* star rows held at one time
MaxStreak   == 3     \* longest run of toggles that is counted
MaxExec     == 1     \* execution records (entitlement specification)
MaxScan     == 3     \* execution records scanned by getUserStats
HashMod     == 5     \* size of the signature space of the digest model

-----------------------------------------------------------------------------
(* Inputs *)

Identities == {"u1", "u2"}
NoIdentity == "anonymous"
Callers    == Identities \cup {NoIdentity}
Emails     == {"e1", "e2"}
\* The display name each identity signs up with.
DisplayName(userId) == IF userId = "u1" THEN "Ann" ELSE "Bob"

FREE_LANGUAGES == {"javascript", "c", "cpp", "python", "java"}
PRO_LANGUAGES  == {"rust", "go", "csharp", "kotlin", "php", "ruby"}
AllLanguages   == FREE_LANGUAGES \cup PRO_LANGUAGES \cup {"typescript"}
ScanLanguages  == {"python", "javascript", "rust"}

Min(S) == CHOOSE x \in S : \A y \in S : x <= y


-----------------------------------------------------------------------------
(* Rows and lookups *)

UserRow(userId, email, name) ==
    [userId |-> userId, email |-> email, name |-> name, isPro |-> FALSE,
     proSince |-> 0, lemonSqueezyCustomerId |-> "unset",
     lemonSqueezyOrderId |-> "unset"]

\* ctx.db.query("users").withIndex("by_user_id", q => q.eq("userId", id)).first():
\* the position of the oldest row of that userId, 0 for null.
UserByUserId(rows, userId) ==
    LET hits == {i \in 1..Len(rows) : rows[i].userId = userId}
    IN  IF hits = {} THEN 0 ELSE Min(hits)

\* ctx.db.query("users").filter(q => q.eq(q.field("email"), email)).first():
\* a table scan in insertion order; the position of the first match, 0 for null.
UserByEmail(rows, email) ==
    LET hits == {i \in 1..Len(rows) : rows[i].email = email}
    IN  IF hits = {} THEN 0 ELSE Min(hits)

\* ctx.db.get(snippetId): the rows of that _id (none, or one).
SnippetById(snippetId) == {s \in snippets : s.id = snippetId}

\* withIndex("by_snippet_id", q => q.eq("snippetId", snippetId)).collect()
CommentsOfSnippet(snippetId) == {c \in comments : c.snippetId = snippetId}
StarsOfSnippet(snippetId)    == {t \in BagToSet(stars) : t.snippetId = snippetId}

-----------------------------------------------------------------------------
(* convex/users.ts *)

\* Mutant of SyncUserRows: the existence check is missing.
SyncUserRows_AlwaysInserts(rows, userId, email, name) ==
    Append(rows, UserRow(userId, email, name))

\* Mutant of SyncUserRows: an upsert, which writes a fresh row over the
\* existing one.
SyncUserRows_ResetsRow(rows, userId, email, name) ==
    LET i == UserByUserId(rows, userId)
    IN  IF i = 0 THEN Append(rows, UserRow(userId, email, name))
        ELSE [rows EXCEPT ![i] = UserRow(userId, email, name)]

\* syncUser's effect on the table: insert only when no row has the userId.
SyncUserRows(rows, userId, email, name) ==
    IF UserByUserId(rows, userId) = 0
    THEN Append(rows, UserRow(userId, email, name))
    ELSE rows

SyncUser(userId, email, name) ==
    /\ users' = SyncUserRows(users, userId, email, name)
    /\ last' = [op |-> "syncUser", userId |-> userId, email |-> email,
                name |-> name, status |-> "ok"]
    /\ streak' = 0
    /\ UNCHANGED <<store, inflight, cascade, paid, snippets, comments, stars, executions,
                   nextSnippet, nextComment>>

\* Mutant of UpgradeToProRows: a second payment switches the flag off.
UpgradeToProRows_Toggles(rows, email, customerId, orderId, now) ==
    LET i == UserByEmail(rows, email)
    IN  IF i = 0 THEN rows
        ELSE [rows EXCEPT ![i] =
                 [@ EXCEPT !.isPro = ~@,
                           !.proSince = now,
                           !.lemonSqueezyCustomerId = customerId,
                           !.lemonSqueezyOrderId = orderId]]

\* Mutant of UpgradeToProRows: every row with the email is patched.
UpgradeToProRows_AllMatching(rows, email, customerId, orderId, now) ==
    [i \in 1..Len(rows) |->
        IF rows[i].email = email
        THEN [rows[i] EXCEPT !.isPro = TRUE,
                             !.proSince = now,
                             !.lemonSqueezyCustomerId = customerId,
                             !.lemonSqueezyOrderId = orderId]
        ELSE rows[i]]

\* Mutant of UpgradeToProRows: an email that matches no row gets a pro row.
UpgradeToProRows_Upserts(rows, email, customerId, orderId, now) ==
    LET i == UserByEmail(rows, email)
    IN  IF i = 0
        THEN Append(rows, [UserRow("pending", email, "pending")
                              EXCEPT !.isPro = TRUE, !.proSince = now])
        ELSE [rows EXCEPT ![i] =
                 [@ EXCEPT !.isPro = TRUE,
                           !.proSince = now,
                           !.lemonSqueezyCustomerId = customerId,
                           !.lemonSqueezyOrderId = orderId]]

\* upgradeToPro's effect on the table: patch the first row with the email.
UpgradeToProRows(rows, email, customerId, orderId, now) ==
    LET i == UserByEmail(rows, email)
    IN  IF i = 0 THEN rows
        ELSE [rows EXCEPT ![i] =
                 [@ EXCEPT !.isPro = TRUE,
                           !.proSince = now,
                           !.lemonSqueezyCustomerId = customerId,
                           !.lemonSqueezyOrderId = orderId]]

-----------------------------------------------------------------------------
(* convex/http.ts: the /clerk-webhook route *)

ClerkWebhookSecret == 2     \* process.env.CLERK_WEBHOOK_SECRET

ClerkEventTypes == {"user.created", "user.updated"}
ClerkEvents     == [type : ClerkEventTypes, id : Identities]

\* The request body as a number: one code per distinct event.
ClerkBodyCode(evt) ==
    (IF evt.type = "user.created" THEN 0 ELSE 1)
    + 2 * (IF evt.id = "u1" THEN 0 ELSE 1)

\* The signature Svix computes for a body under a secret: a keyed digest.
SvixSignature(secret, evt) == (secret * 2 + ClerkBodyCode(evt) * 3 + 1) % HashMod

\* Mutant of SvixVerify: the signature is not compared.
SvixVerify_AcceptsAll(evt, signature) == TRUE

\* new Webhook(webhookSecret).verify(body, headers): TRUE when it returns
\* the event, FALSE when it throws.
SvixVerify(evt, signature) == signature = SvixSignature(ClerkWebhookSecret, evt)

\* The route.  A verify that throws ends the request: with the try/catch of
\* the error-handling excerpt the response is 400, without it the uncaught
\* throw is the platform's 500.  synced lists the userIds syncUser was run
\* with.
ClerkWebhook(evt, signature, caught) ==
    /\ IF ~SvixVerify(evt, signature)
       THEN /\ users' = users
            /\ last' = [op |-> "clerkWebhook", evt |-> evt,
                        signature |-> signature,
                        status |-> IF caught THEN 400 ELSE 500,
                        synced |-> <<>>]
       ELSE IF evt.type = "user.created"
       THEN /\ users' = SyncUserRows(users, evt.id, "e1", DisplayName(evt.id))
            /\ last' = [op |-> "clerkWebhook", evt |-> evt,
                        signature |-> signature, status |-> 200,
                        synced |-> <<evt.id>>]
       ELSE /\ users' = users
            /\ last' = [op |-> "clerkWebhook", evt |-> evt,
                        signature |-> signature, status |-> 200,
                        synced |-> <<>>]
    /\ streak' = 0
    /\ UNCHANGED <<store, inflight, cascade, paid, snippets, comments, stars, executions,
                   nextSnippet, nextComment>>

-----------------------------------------------------------------------------
(* convex/lemonSqueezy.ts and the /lemon-squeezy-webhook route *)

WebhookSecret == 3     \* process.env.LEMON_SQUEEZY_WEBHOOK_SECRET
NoSignature   == -1    \* request.headers.get("X-Signature") returned null
Times         == {1}   \* Date.now()

Events   == {"order_created", "subscription_updated"}
Payloads == [event_name : Events, user_email : Emails,
             customer_id : {"cus1"}, id : {"ord1"}]
Signatures == (0..(HashMod - 1)) \cup {NoSignature}

\* The raw request text as a number: one code per distinct payload.
PayloadCode(payload) ==
    (IF payload.event_name = "order_created" THEN 0 ELSE 1)
    + 2 * (IF payload.user_email = "e1" THEN 0 ELSE 1)

\* createHmac("sha256", secret).update(payload).digest("hex"): a keyed digest,
\* a function of the key and of the text and of nothing else.
Hmac(secret, payload) == (secret * 2 + PayloadCode(payload) * 3 + 1) % HashMod

\* Mutant of VerifyWebhook: the comparison is missing.
VerifyWebhook_AcceptsAll(payload, signature) == TRUE

\* verifyWebhook: TRUE when it returns JSON.parse(payload), FALSE when it
\* throws "Invalid signature".
VerifyWebhook(payload, signature) == signature = Hmac(WebhookSecret, payload)

LemonSqueezyWebhook(payload, signature, now) ==
    /\ IF ~VerifyWebhook(payload, signature)
       THEN /\ users' = users
            /\ paid' = paid
            /\ last' = [op |-> "lemonSqueezyWebhook", payload |-> payload,
                        signature |-> signature, status |-> "Invalid signature"]
       ELSE /\ users' = IF payload.event_name = "order_created"
                        THEN UpgradeToProRows(users, payload.user_email,
                                              payload.customer_id, payload.id, now)
                        ELSE users
            /\ paid' = IF payload.event_name = "order_created"
                       THEN paid \cup {users[i].userId : i \in
                               {j \in 1..Len(users) :
                                    users[j].email = payload.user_email}}
                       ELSE paid
            /\ last' = [op |-> "lemonSqueezyWebhook", payload |-> payload,
                        signature |-> signature, status |-> "ok"]
    /\ streak' = 0
    /\ UNCHANGED <<store, inflight, cascade, snippets, comments, stars, executions,
                   nextSnippet, nextComment>>

-----------------------------------------------------------------------------
(* convex/codeExecutions.ts *)

\* Mutant of SaveExecutionOutcome: the gate before the language update,
\* args.language !== "javascript".
SaveExecutionOutcome_JavascriptOnly(rows, caller, language, optionalChaining) ==
    LET i == UserByUserId(rows, caller)
        isPro == IF i = 0 THEN FALSE ELSE rows[i].isPro
    IN  IF caller = NoIdentity THEN "TypeError"
        ELSE IF i = 0 /\ ~optionalChaining THEN "TypeError"
        ELSE IF ~isPro /\ language # "javascript"
             THEN "Pro subscription required"
        ELSE "ok"

\* Mutant of SaveExecutionOutcome: the gate is missing.
SaveExecutionOutcome_NoGate(rows, caller, language, optionalChaining) ==
    LET i == UserByUserId(rows, caller)
    IN  IF caller = NoIdentity THEN "TypeError"
        ELSE IF i = 0 /\ ~optionalChaining THEN "TypeError"
        ELSE "ok"

\* The outcome of saveExecution's checks.  With no User row for the caller
\* the handler of STUDY/02_BUILD_PROCESS.md reads user.isPro and throws a
\* TypeError; the handler of the language update reads user?.isPro, which
\* is undefined, so the caller is treated as not pro.  optionalChaining
\* selects between the two texts.
SaveExecutionOutcome(rows, caller, language, optionalChaining) ==
    LET i == UserByUserId(rows, caller)
        isPro == IF i = 0 THEN FALSE ELSE rows[i].isPro
    IN  IF caller = NoIdentity THEN "TypeError"
        ELSE IF i = 0 /\ ~optionalChaining THEN "TypeError"
        ELSE IF ~isPro /\ language \notin FREE_LANGUAGES
             THEN "Pro subscription required"
        ELSE "ok"

\* Mutant of AppendExecution: one record per user, replaced by the new one.
AppendExecution_KeepsLatest(rows, caller, language) ==
    Append(SelectSeq(rows, LAMBDA e : e.userId # caller),
           [userId |-> caller, language |-> language])

\* ctx.db.insert("codeExecutions", {userId: identity.subject, language, ...})
AppendExecution(rows, caller, language) ==
    Append(rows, [userId |-> caller, language |-> language])

\* saveExecution, while the table holds fewer than cap records.
SaveExecutionCall(cap, caller, language, optionalChaining) ==
    LET outcome == SaveExecutionOutcome(users, caller, language, optionalChaining)
    IN  /\ outcome = "ok" => Len(executions) < cap
        /\ executions' = IF outcome = "ok"
                         THEN AppendExecution(executions, caller, language)
                         ELSE executions
        /\ last' = [op |-> "saveExecution", caller |-> caller,
                    language |-> language, status |-> outcome]
        /\ streak' = 0
        /\ UNCHANGED <<inflight, cascade, paid, users, snippets, comments,
                       stars, nextSnippet, nextComment>>

SaveExecutionUpTo(cap, caller, language, optionalChaining) ==
    /\ SaveExecutionCall(cap, caller, language, optionalChaining)
    /\ UNCHANGED store

SaveExecution(caller, language, optionalChaining) ==
    SaveExecutionUpTo(MaxExec, caller, language, optionalChaining)

\* withIndex("by_user_id", q => q.eq("userId", userId)).collect()
ExecutionsOfUser(rows, userId) == SelectSeq(rows, LAMBDA e : e.userId = userId)

\* executions.reduce((acc, curr) => { acc[curr.language] = (acc[...] || 0) + 1 }, {})
RECURSIVE LanguageStatsFrom(_, _)
LanguageStatsFrom(execs, acc) ==
    IF execs = <<>> THEN acc
    ELSE LET l == Head(execs).language
             n == IF l \in DOMAIN acc THEN acc[l] ELSE 0
         IN  LanguageStatsFrom(Tail(execs),
                 [k \in DOMAIN acc \cup {l} |-> IF k = l THEN n + 1 ELSE acc[k]])

LanguageStats(execs) == LanguageStatsFrom(execs, [k \in {} |-> 0])

\* Object.keys(languageStats): the keys in the order the reduce created them.
RECURSIVE ObjectKeysFrom(_, _)
ObjectKeysFrom(execs, keys) ==
    IF execs = <<>> THEN keys
    ELSE LET l == Head(execs).language
         IN  ObjectKeysFrom(Tail(execs),
                 IF \E i \in 1..Len(keys) : keys[i] = l
                 THEN keys ELSE Append(keys, l))

ObjectKeys(execs) == ObjectKeysFrom(execs, <<>>)

\* Mutant of Pick: >= for >, so that the accumulator survives a tie.
Pick_KeepsOnTie(stats, a, b) == IF stats[a] >= stats[b] THEN a ELSE b

\* The callback of languages.reduce: (a, b) => stats[a] > stats[b] ? a : b
Pick(stats, a, b) == IF stats[a] > stats[b] THEN a ELSE b

\* languages.reduce(callback) with no initial value, languages not empty.
RECURSIVE ReduceFrom(_, _, _)
ReduceFrom(stats, a, rest) ==
    IF rest = <<>> THEN a
    ELSE ReduceFrom(stats, Pick(stats, a, Head(rest)), Tail(rest))

FavoriteLanguage(execs) ==
    LET languages == ObjectKeys(execs)
    IN  ReduceFrom(LanguageStats(execs), Head(languages), Tail(languages))

\* getUserStats: a query; reduce without an initial value throws a TypeError
\* on an empty array.
GetUserStatsResult(rows, userId) ==
    LET execs == ExecutionsOfUser(rows, userId)
    IN  IF execs = <<>>
        THEN [op |-> "getUserStats", userId |-> userId, status |-> "TypeError"]
        ELSE [op |-> "getUserStats", userId |-> userId, status |-> "ok",
              totalExecutions |-> Len(execs),
              languagesCount |-> Cardinality(DOMAIN LanguageStats(execs)),
              favoriteLanguage |-> FavoriteLanguage(execs)]

GetUserStats(userId) ==
    /\ last' = GetUserStatsResult(executions, userId)
    /\ streak' = 0
    /\ UNCHANGED <<store, inflight, cascade, paid, users, snippets, comments, stars, executions,
                   nextSnippet, nextComment>>

-----------------------------------------------------------------------------
(* src/app/(root)/_components/LanguageSelector.tsx *)

\* The ids of LANGUAGE_CONFIG: the languages the selector lists.
ConfiguredLanguages == FREE_LANGUAGES \cup PRO_LANGUAGES

\* Mutant of LanguageSelectorAllows: the check before the language update,
\* langId !== "javascript".
LanguageSelectorAllows_JavascriptOnly(hasAccess, langId) ==
    ~(~hasAccess /\ langId # "javascript")

\* The selector's guard: if (!hasAccess && !FREE_LANGUAGES.includes(langId))
\* return; TRUE when the click goes on to setLanguage(langId).
LanguageSelectorAllows(hasAccess, langId) ==
    ~(~hasAccess /\ langId \notin FREE_LANGUAGES)

\* A click on one entry of the selector.  hasAccess is the isPro flag of the
\* signed-in user's row, false for a visitor without one.
SelectLanguage(caller, langId) ==
    LET i == UserByUserId(users, caller)
        hasAccess == IF i = 0 THEN FALSE ELSE users[i].isPro
    IN  /\ last' = [op |-> "selectLanguage", caller |-> caller,
                    language |-> langId, hasAccess |-> hasAccess,
                    status |-> IF LanguageSelectorAllows(hasAccess, langId)
                               THEN "selected" ELSE "ignored"]
        /\ streak' = 0
        /\ UNCHANGED <<store, inflight, cascade, paid, users, snippets, comments, stars, executions,
                       nextSnippet, nextComment>>

-----------------------------------------------------------------------------
(* convex/snippets.ts *)

\* Mutant of CreateSnippetOutcome: the identity check is missing, as it is
\* in deleteSnippet and addComment.
CreateSnippetOutcome_NoAuthCheck(rows, caller) ==
    IF UserByUserId(rows, caller) = 0 THEN "TypeError"
    ELSE "ok"

\* The checks of createSnippet: a missing identity is "Not authenticated";
\* user.name of a missing User row is a TypeError.
CreateSnippetOutcome(rows, caller) ==
    IF caller = NoIdentity THEN "Not authenticated"
    ELSE IF UserByUserId(rows, caller) = 0 THEN "TypeError"   \* user.name of null
    ELSE "ok"

\* createSnippet, while fewer than cap snippets have been created.
CreateSnippetUpTo(cap, caller) ==
    LET outcome == CreateSnippetOutcome(users, caller)
    IN  /\ outcome = "ok" => nextSnippet <= cap
        /\ IF outcome = "ok"
           THEN /\ snippets' = snippets \cup
                       {[id |-> nextSnippet, userId |-> caller,
                         userName |-> users[UserByUserId(users, caller)].name]}
                /\ nextSnippet' = nextSnippet + 1
           ELSE UNCHANGED <<snippets, nextSnippet>>
        /\ last' = [op |-> "createSnippet", caller |-> caller,
                    snippetId |-> IF outcome = "ok" THEN nextSnippet ELSE 0,
                    status |-> outcome]
        /\ streak' = 0
        /\ UNCHANGED <<store, inflight, cascade, paid, users, comments, stars, executions, nextComment>>

CreateSnippet(caller) == CreateSnippetUpTo(MaxSnippets, caller)

\* Mutant of DeleteSnippetOutcome: the ownership comparison is missing.
DeleteSnippetOutcome_NoOwnerCheck(caller, snippetId) ==
    IF SnippetById(snippetId) = {} THEN "TypeError"
    ELSE IF caller = NoIdentity THEN "TypeError"
    ELSE "ok"

\* Mutant of DeleteSnippetOutcome: a missing snippet passes the checks.
DeleteSnippetOutcome_NoNullCheck(caller, snippetId) ==
    IF caller = NoIdentity THEN "TypeError"
    ELSE IF \E s \in SnippetById(snippetId) : s.userId # caller
         THEN "Not authorized"
    ELSE "ok"

\* The checks of deleteSnippet, in the order the handler evaluates them:
\* snippet.userId of a missing snippet and identity.subject of a missing
\* identity are TypeErrors; a foreign owner is "Not authorized".
DeleteSnippetOutcome(caller, snippetId) ==
    IF SnippetById(snippetId) = {} THEN "TypeError"
    ELSE IF caller = NoIdentity THEN "TypeError"
    ELSE IF \E s \in SnippetById(snippetId) : s.userId # caller
         THEN "Not authorized"
    ELSE "ok"

\* Mutant of CascadeComments: the collect() is not restricted to the snippet.
CascadeComments_AllComments(snippetId) == {}

\* for (const comment of comments) await ctx.db.delete(comment._id)
CascadeComments(snippetId) == comments \ CommentsOfSnippet(snippetId)

\* Mutant of CascadeStars: the star loop is missing.
CascadeStars_KeepsStars(snippetId) == stars

\* for (const star of stars) await ctx.db.delete(star._id)
CascadeStars(snippetId) ==
    [t \in BagToSet(stars) \ StarsOfSnippet(snippetId) |-> stars[t]]

DeleteSnippet(caller, snippetId) ==
    LET outcome == DeleteSnippetOutcome(caller, snippetId)
    IN  /\ IF outcome = "ok"
           THEN /\ comments' = CascadeComments(snippetId)
                /\ stars' = CascadeStars(snippetId)
                /\ snippets' = snippets \ SnippetById(snippetId)
           ELSE UNCHANGED <<snippets, comments, stars>>
        /\ last' = [op |-> "deleteSnippet", caller |-> caller,
                    snippetId |-> snippetId, status |-> outcome,
                    comments |-> Cardinality(CommentsOfSnippet(snippetId)),
                    stars |-> Cardinality(StarsOfSnippet(snippetId))]
        /\ streak' = 0
        /\ UNCHANGED <<store, inflight, cascade, paid, users, executions, nextSnippet, nextComment>>

-----------------------------------------------------------------------------
(* deleteSnippet, one store call at a time *)

\* The handler awaits every store call.  The excerpts of the handler show
\* no transaction around the calls, no catch and no compensating write, so
\* between two awaits the tables are as the calls made so far left them,
\* and other handlers may run there.

\* No deleteSnippet call is between two store calls.
Idle == [phase |-> 0, caller |-> NoIdentity, snippetId |-> 0,
         todo |-> EmptyBag, removed |-> 0]

\* Mutant of CascadeOrder: the parent row first.
CascadeOrder_SnippetFirst == <<"snippets", "snippetComments", "stars">>

\* The tables in the order the handler deletes from them.
CascadeOrder == <<"snippetComments", "stars", "snippets">>

\* What the handler is about to delete from one table: the rows its collect()
\* returned, or the row of args.snippetId.
PhaseRows(table, snippetId) ==
    IF table = "snippetComments" THEN SetToBag(CommentsOfSnippet(snippetId))
    ELSE IF table = "stars"
         THEN [t \in StarsOfSnippet(snippetId) |-> stars[t]]
    ELSE SetToBag(SnippetById(snippetId))

\* The first phase from k on that has a row to delete; 0 when the handler
\* has nothing left to do and returns.  A for loop over no rows makes no
\* store call.
PhaseFrom(k, snippetId) ==
    LET busy == {j \in k..Len(CascadeOrder) :
                    BagToSet(PhaseRows(CascadeOrder[j], snippetId)) # {}}
    IN  IF busy = {} THEN 0 ELSE Min(busy)

\* The call starts: identity, ctx.db.get, the ownership check and the first
\* collect().  A call that fails its checks ends here.
BeginDeleteSnippet(caller, snippetId) ==
    LET outcome == DeleteSnippetOutcome(caller, snippetId)
        first == PhaseFrom(1, snippetId)
    IN  /\ cascade.phase = 0
        /\ IF outcome = "ok"
           THEN /\ cascade' = [phase |-> first, caller |-> caller,
                               snippetId |-> snippetId,
                               todo |-> PhaseRows(CascadeOrder[first], snippetId),
                               removed |-> 0]
                /\ last' = [op |-> "deleteSnippet", caller |-> caller,
                            snippetId |-> snippetId, status |-> "running",
                            removed |-> 0]
           ELSE /\ cascade' = cascade
                /\ last' = [op |-> "deleteSnippet", caller |-> caller,
                            snippetId |-> snippetId, status |-> outcome,
                            removed |-> 0]
        /\ streak' = 0
        /\ UNCHANGED <<store, inflight, paid, users, snippets, comments, stars, executions,
                       nextSnippet, nextComment>>

\* One await ctx.db.delete(row._id) of the running call, followed by the
\* collect() of the next table when the loop is over, or by the return when
\* it was the last call.  A collected row that another handler has deleted
\* meanwhile is no longer there to remove.
CascadeStep ==
    /\ cascade.phase > 0
    /\ \E row \in BagToSet(cascade.todo) :
          LET table == CascadeOrder[cascade.phase]
              present == IF table = "snippetComments" THEN row \in comments
                         ELSE IF table = "stars" THEN CopiesIn(row, stars) > 0
                         ELSE row \in snippets
              todo == cascade.todo (-) SetToBag({row})
              removed == cascade.removed + (IF present THEN 1 ELSE 0)
              next == PhaseFrom(cascade.phase + 1, cascade.snippetId)
          IN  /\ comments' = IF table = "snippetComments"
                             THEN comments \ {row} ELSE comments
              /\ stars' = IF table = "stars"
                          THEN stars (-) SetToBag({row}) ELSE stars
              /\ snippets' = IF table = "snippets"
                             THEN snippets \ {row} ELSE snippets
              /\ IF BagToSet(todo) # {}
                 THEN /\ cascade' = [cascade EXCEPT !.todo = todo,
                                                    !.removed = removed]
                      /\ last' = last
                 ELSE IF next # 0
                 THEN /\ cascade' = [cascade EXCEPT
                                        !.phase = next,
                                        !.todo = PhaseRows(CascadeOrder[next],
                                                           cascade.snippetId),
                                        !.removed = removed]
                      /\ last' = last
                 ELSE /\ cascade' = Idle
                      /\ last' = [op |-> "deleteSnippet",
                                  caller |-> cascade.caller,
                                  snippetId |-> cascade.snippetId,
                                  status |-> "ok", removed |-> removed]
    /\ streak' = 0
    /\ UNCHANGED <<store, inflight, paid, users, executions, nextSnippet, nextComment>>

\* The store call the running handler is waiting on rejects: the await
\* throws, nothing catches it, the call ends.  What earlier calls deleted
\* stays deleted.
CascadeFails ==
    /\ cascade.phase > 0
    /\ cascade' = Idle
    /\ last' = [op |-> "deleteSnippet", caller |-> cascade.caller,
                snippetId |-> cascade.snippetId, status |-> "store error",
                removed |-> cascade.removed]
    /\ streak' = 0
    /\ UNCHANGED <<store, inflight, paid, users, snippets, comments, stars, executions,
                   nextSnippet, nextComment>>

-----------------------------------------------------------------------------
(* convex/snippets.ts, continued *)

\* The range of starSnippet's index query is the value of
\*     q.eq("userId", identity.subject) && q.eq("snippetId", args.snippetId)
\* Both operands are range-builder objects, so && yields its right operand:
\* the range that reaches the store constrains snippetId alone.
ExistingStars(caller, snippetId) ==
    {t \in BagToSet(stars) : t.snippetId = snippetId}

StarRow(userId, snippetId) == [userId |-> userId, snippetId |-> snippetId]

\* The number of star rows of one (user, snippet) pair.
StarsOfPair(userId, snippetId) == CopiesIn(StarRow(userId, snippetId), stars)

\* The run of toggles the call StarSnippet(caller, snippetId) belongs to.
NextStreak(caller, snippetId) ==
    IF /\ streak > 0
       /\ last.op = "starSnippet"
       /\ last.caller = caller
       /\ last.snippetId = snippetId
    THEN (IF streak < MaxStreak THEN streak + 1 ELSE 0)
    ELSE (IF StarsOfPair(caller, snippetId) = 0 THEN 1 ELSE 0)

StarSnippet(caller, snippetId) ==
    IF caller = NoIdentity
    THEN /\ last' = [op |-> "starSnippet", caller |-> caller,
                     snippetId |-> snippetId, status |-> "TypeError"]
         /\ streak' = 0
         /\ UNCHANGED <<store, inflight, cascade, paid, users, snippets, comments, stars, executions,
                        nextSnippet, nextComment>>
    ELSE /\ IF ExistingStars(caller, snippetId) # {}
            THEN \* .first() of the range, then ctx.db.delete(existing._id)
                 \E existing \in ExistingStars(caller, snippetId) :
                     stars' = stars (-) SetToBag({existing})
            ELSE /\ BagCardinality(stars) < MaxStars
                 /\ stars' = stars (+) SetToBag({StarRow(caller, snippetId)})
         /\ last' = [op |-> "starSnippet", caller |-> caller,
                     snippetId |-> snippetId, status |-> "ok"]
         /\ streak' = NextStreak(caller, snippetId)
         /\ UNCHANGED <<store, inflight, cascade, paid, users, snippets, comments, executions,
                        nextSnippet, nextComment>>

\* addComment reads identity.subject and user.name and inserts; it never
\* reads the snippets table.
AddCommentOutcome(rows, caller, snippetId) ==
    IF caller = NoIdentity THEN "TypeError"
    ELSE IF UserByUserId(rows, caller) = 0 THEN "TypeError"
    ELSE "ok"

AddComment(caller, snippetId) ==
    LET outcome == AddCommentOutcome(users, caller, snippetId)
    IN  /\ outcome = "ok" => nextComment <= MaxComments
        /\ IF outcome = "ok"
           THEN /\ comments' = comments \cup
                       {[id |-> nextComment, snippetId |-> snippetId,
                         userId |-> caller,
                         userName |-> users[UserByUserId(users, caller)].name]}
                /\ nextComment' = nextComment + 1
           ELSE UNCHANGED <<comments, nextComment>>
        /\ last' = [op |-> "addComment", caller |-> caller,
                    snippetId |-> snippetId,
                    commentId |-> IF outcome = "ok" THEN nextComment ELSE 0,
                    status |-> outcome]
        /\ streak' = 0
        /\ UNCHANGED <<store, inflight, cascade, paid, users, snippets, stars, executions, nextSnippet>>

\* Mutant of DeleteCommentOutcome: the author comparison is missing.
DeleteCommentOutcome_NoAuthorCheck(caller, commentId) ==
    IF caller = NoIdentity THEN "Not authenticated"
    ELSE IF {c \in comments : c.id = commentId} = {} THEN "NotFound"
    ELSE "ok"

\* deleteComment: author-only deletion.
DeleteCommentOutcome(caller, commentId) ==
    IF caller = NoIdentity THEN "Not authenticated"
    ELSE IF {c \in comments : c.id = commentId} = {} THEN "NotFound"
    ELSE IF \E c \in comments : c.id = commentId /\ c.userId # caller
         THEN "Forbidden"
    ELSE "ok"

DeleteComment(caller, commentId) ==
    LET outcome == DeleteCommentOutcome(caller, commentId)
    IN  /\ comments' = IF outcome = "ok"
                       THEN {c \in comments : c.id # commentId}
                       ELSE comments
        /\ last' = [op |-> "deleteComment", caller |-> caller,
                    commentId |-> commentId, status |-> outcome]
        /\ streak' = 0
        /\ UNCHANGED <<store, inflight, cascade, paid, users, snippets, stars, executions,
                       nextSnippet, nextComment>>

-----------------------------------------------------------------------------
(* Two calls of one mutation in progress at once, each one store call at a
   time: the read (a query) and then the write decided from what was read *)

CallIds == {1, 2}

NoCall == [pc |-> "idle", caller |-> NoIdentity, snippetId |-> 0,
           found |-> FALSE, existing |-> StarRow(NoIdentity, 0)]

NoCalls == [k \in CallIds |-> NoCall]

\* starSnippet up to the end of its query: existing = ....first()
StarSnippetReads(k, caller, snippetId) ==
    /\ inflight[k].pc = "idle"
    /\ caller # NoIdentity
    /\ IF ExistingStars(caller, snippetId) # {}
       THEN \E existing \in ExistingStars(caller, snippetId) :
                inflight' = [inflight EXCEPT ![k] =
                                [pc |-> "star", caller |-> caller,
                                 snippetId |-> snippetId, found |-> TRUE,
                                 existing |-> existing]]
       ELSE inflight' = [inflight EXCEPT ![k] =
                            [pc |-> "star", caller |-> caller,
                             snippetId |-> snippetId, found |-> FALSE,
                             existing |-> NoCall.existing]]
    /\ UNCHANGED <<store, cascade, paid, users, snippets, comments, stars,
                   executions, nextSnippet, nextComment, last, streak>>

\* starSnippet from if (existing) on: ctx.db.delete(existing._id), which
\* fails when the row is gone, or ctx.db.insert("stars", ...)
StarSnippetWrites(k) ==
    LET call == inflight[k]
        gone == call.found /\ CopiesIn(call.existing, stars) = 0
    IN  /\ call.pc = "star"
        /\ IF call.found
           THEN stars' = IF gone THEN stars
                         ELSE stars (-) SetToBag({call.existing})
           ELSE /\ BagCardinality(stars) < MaxStars
                /\ stars' = stars (+) SetToBag({StarRow(call.caller,
                                                        call.snippetId)})
        /\ last' = [op |-> "starSnippet", caller |-> call.caller,
                    snippetId |-> call.snippetId,
                    status |-> IF gone THEN "store error" ELSE "ok"]
        /\ streak' = 0
        /\ inflight' = [inflight EXCEPT ![k] = NoCall]
        /\ UNCHANGED <<store, cascade, paid, users, snippets, comments,
                       executions, nextSnippet, nextComment>>

\* syncUser up to the end of its query: existing = ....first()
SyncUserReads(k, userId) ==
    /\ inflight[k].pc = "idle"
    /\ inflight' = [inflight EXCEPT ![k] =
                       [NoCall EXCEPT !.pc = "sync", !.caller = userId,
                                      !.found = UserByUserId(users, userId) # 0]]
    /\ UNCHANGED <<store, cascade, paid, users, snippets, comments, stars,
                   executions, nextSnippet, nextComment, last, streak>>

\* syncUser from if (!existing) on: ctx.db.insert("users", ...)
SyncUserWrites(k, email) ==
    LET call == inflight[k]
    IN  /\ call.pc = "sync"
        /\ users' = IF call.found THEN users
                     ELSE Append(users, UserRow(call.caller, email,
                                                DisplayName(call.caller)))
        /\ last' = [op |-> "syncUser", userId |-> call.caller,
                    email |-> email, name |-> DisplayName(call.caller),
                    status |-> "ok"]
        /\ streak' = 0
        /\ inflight' = [inflight EXCEPT ![k] = NoCall]
        /\ UNCHANGED <<store, cascade, paid, snippets, comments, stars,
                       executions, nextSnippet, nextComment>>

-----------------------------------------------------------------------------
(* src/store/useCodeEditorStore.ts: runCode *)

\* JavaScript null, as the value of error
Null == "null"

\* the message of the TypeError raised by reading a property of undefined
TypeErrorMessage == "TypeError"

\* the message of the error with which fetch or response.json() rejects
FetchErrorMessage == "fetch failed"

\* a section (compile or run) of the sandbox's answer; present = FALSE is a
\* section the answer does not have
Absent == [present |-> FALSE, code |-> 0, stderr |-> "", output |-> ""]

Sections ==
    {Absent} \cup [present : {TRUE}, code : {0, 1},
                   stderr : {"", "err"}, output : {"", " out "}]

Responses == [compile : Sections, run : Sections]

\* String.prototype.trim on the texts of Sections
Trim(s) == IF s = " out " THEN "out" ELSE s

\* a || b on strings: the empty string is falsy
Or(a, b) == IF a # "" THEN a ELSE b

\* the error and output that runCode stores for the answer data
RunCodeSets(data) ==
    IF ~data.compile.present
    THEN \* undefined !== 0 holds, and data.compile.stderr throws into catch
         [error |-> TypeErrorMessage, output |-> ""]
    ELSE IF data.compile.code # 0
    THEN [error |-> Or(data.compile.stderr, data.compile.output), output |-> ""]
    ELSE IF ~data.run.present
    THEN [error |-> TypeErrorMessage, output |-> ""]
    ELSE IF data.run.code # 0
    THEN [error |-> Or(data.run.stderr, data.run.output), output |-> ""]
    ELSE [error |-> Null, output |-> Trim(data.run.output)]

InitialStore ==
    [pc |-> "idle", user |-> NoIdentity, language |-> "javascript",
     isRunning |-> FALSE, output |-> "", error |-> Null,
     executionResult |-> [set |-> FALSE, output |-> "", error |-> Null],
     answered |-> FALSE, data |-> [compile |-> Absent, run |-> Absent],
     fresh |-> FALSE]

\* set({ isRunning: true, error: null, output: "" })
RunCodeEnter(st) ==
    [st EXCEPT !.isRunning = TRUE, !.error = Null, !.output = ""]

RunCodeExit_NoFinally(st, sets) ==
    [st EXCEPT !.output = sets.output, !.error = sets.error,
               !.executionResult = [set |-> TRUE, output |-> sets.output,
                                    error |-> sets.error],
               !.isRunning = IF sets.error = Null THEN FALSE ELSE @]

\* the set() of the branch taken, then finally { set({ isRunning: false }) }
RunCodeExit(st, sets) ==
    [st EXCEPT !.output = sets.output, !.error = sets.error,
               !.executionResult = [set |-> TRUE, output |-> sets.output,
                                    error |-> sets.error],
               !.isRunning = FALSE]

-----------------------------------------------------------------------------
(* src/app/(root)/_components/RunButton.tsx: handleRun *)

AfterRunCode_NoUserCheck(user) == "saving"

\* if (user) { ... await saveExecution(...) }
AfterRunCode(user) == IF user # NoIdentity THEN "saving" ELSE "idle"

\* a click on the button, up to the await of fetch inside runCode; one
\* handleRun is followed at a time
HandleRun(user, language) ==
    /\ store.pc = "idle"
    /\ ~store.isRunning
    /\ store' = [RunCodeEnter(store) EXCEPT !.pc = "running", !.user = user,
                                            !.language = language,
                                            !.answered = FALSE, !.fresh = FALSE,
                                            !.data = InitialStore.data]
    /\ UNCHANGED <<users, snippets, comments, stars, executions, nextSnippet,
                   nextComment, last, paid, streak, cascade, inflight>>

\* the sandbox answers: runCode runs to its end and handleRun goes on
SandboxAnswers(data) ==
    /\ store.pc = "running"
    /\ store' = [RunCodeExit(store, RunCodeSets(data)) EXCEPT
                     !.pc = AfterRunCode(store.user), !.answered = TRUE,
                     !.data = data, !.fresh = TRUE]
    /\ UNCHANGED <<users, snippets, comments, stars, executions, nextSnippet,
                   nextComment, last, paid, streak, cascade, inflight>>

\* fetch or response.json() rejects: catch, then finally
SandboxFails ==
    /\ store.pc = "running"
    /\ store' = [RunCodeExit(store, [error |-> FetchErrorMessage, output |-> ""])
                     EXCEPT !.pc = AfterRunCode(store.user), !.fresh = TRUE]
    /\ UNCHANGED <<users, snippets, comments, stars, executions, nextSnippet,
                   nextComment, last, paid, streak, cascade, inflight>>

\* await saveExecution({ language, code, output, error })
HandleRunSaves ==
    /\ store.pc = "saving"
    /\ \E oc \in BOOLEAN :
           SaveExecutionCall(MaxExec, store.user, store.language, oc)
    /\ store' = [store EXCEPT !.pc = "idle"]

-----------------------------------------------------------------------------
(* Specifications *)

Init ==
    /\ users = <<>>
    /\ snippets = {}
    /\ comments = {}
    /\ stars = EmptyBag
    /\ executions = <<>>
    /\ nextSnippet = 1
    /\ nextComment = 1
    /\ last = [op |-> "none", status |-> "ok"]
    /\ paid = {}
    /\ streak = 0
    /\ cascade = Idle
    /\ store = InitialStore
    /\ inflight = NoCalls

\* Ids the store has issued: the only values v.id("snippets") lets through.
IssuedSnippetIds == 1..(nextSnippet - 1)
IssuedCommentIds == 1..(nextComment - 1)

\* The snippet store: users sign up, then create, star, comment and delete.
Next ==
    \/ \E u \in Identities : SyncUser(u, "e1", DisplayName(u))
    \/ \E c \in Callers : CreateSnippet(c)
    \/ \E c \in Callers, s \in IssuedSnippetIds : DeleteSnippet(c, s)
    \/ \E c \in Callers, s \in IssuedSnippetIds : StarSnippet(c, s)
    \/ \E c \in Callers, s \in IssuedSnippetIds : AddComment(c, s)
    \/ \E c \in Callers, k \in IssuedCommentIds : DeleteComment(c, k)

Spec == Init /\ [][Next]_vars

\* The snippet store with deleteSnippet run one store call at a time: u1
\* creates snippets, both users comment, u2 stars, and every caller tries to
\* delete, while a call that has started may be between two store calls.
NextCascade ==
    \/ \E u \in Identities : SyncUser(u, "e1", DisplayName(u))
    \/ CreateSnippet("u1")
    \/ \E c \in Identities, s \in IssuedSnippetIds : AddComment(c, s)
    \/ \E s \in IssuedSnippetIds : StarSnippet("u2", s)
    \/ \E c \in Callers, s \in IssuedSnippetIds : BeginDeleteSnippet(c, s)
    \/ CascadeStep
    \/ CascadeFails

SpecCascade == Init /\ [][NextCascade]_vars

\* Every operation in one store: u1 and u2 sign up with one email, payment
\* events for that email arrive signed or unsigned, u1 records executions
\* in a free and in a gated language and creates and deletes snippets, u2
\* stars, comments and deletes comments.  The table of executions has room
\* for a record and a later one.
NextAll ==
    \/ \E u \in Identities : SyncUser(u, "e1", DisplayName(u))
    \/ \E p \in {q \in Payloads : q.user_email = "e1"}, t \in Times :
           \E g \in {Hmac(WebhookSecret, p), NoSignature} :
               LemonSqueezyWebhook(p, g, t)
    \/ \E l \in {"python", "rust"} :
           SaveExecutionUpTo(MaxExec + 1, "u1", l, TRUE)
    \/ CreateSnippet("u1")
    \/ \E s \in IssuedSnippetIds : DeleteSnippet("u1", s)
    \/ \E s \in IssuedSnippetIds : StarSnippet("u2", s)
    \/ \E s \in IssuedSnippetIds : AddComment("u2", s)
    \/ \E k \in IssuedCommentIds : DeleteComment("u2", k)

SpecAll == Init /\ [][NextAll]_vars

\* Sign-up: identity-provider events arrive with every signature header, and
\* the client's own syncUser call is the other creation path.
NextClerk ==
    \/ \E evt \in ClerkEvents, g \in Signatures, caught \in BOOLEAN :
           ClerkWebhook(evt, g, caught)
    \/ \E u \in Identities, e \in Emails : SyncUser(u, e, DisplayName(u))

SpecClerk == Init /\ [][NextClerk]_vars

\* A store with room for a snippet beside the one that is deleted: u1
\* creates and deletes snippets and records an execution, u2 comments and
\* stars.
NextFrame ==
    \/ \E u \in Identities : SyncUser(u, "e1", DisplayName(u))
    \/ CreateSnippetUpTo(MaxSnippets + 1, "u1")
    \/ \E s \in IssuedSnippetIds : AddComment("u2", s)
    \/ \E s \in IssuedSnippetIds : StarSnippet("u2", s)
    \/ SaveExecution("u1", "python", TRUE)
    \/ \E s \in IssuedSnippetIds : DeleteSnippet("u1", s)

SpecFrame == Init /\ [][NextFrame]_vars

\* Entitlement: sign-up, payment webhook, execution recording.
NextEntitlement ==
    \/ \E u \in Identities, e \in Emails : SyncUser(u, e, DisplayName(u))
    \/ \E p \in Payloads, g \in Signatures, t \in Times :
           LemonSqueezyWebhook(p, g, t)
    \/ \E c \in Callers, l \in ScanLanguages, oc \in BOOLEAN :
           SaveExecution(c, l, oc)

SpecEntitlement == Init /\ [][NextEntitlement]_vars

\* The language gate: saveExecution in every language of the configuration
\* (and one outside it), by a free user, a pro user and an anonymous caller.
FreeAndProUsers ==
    UpgradeToProRows(
        SyncUserRows(SyncUserRows(<<>>, "u1", "e1", "Ann"), "u2", "e2", "Bob"),
        "e2", "cus1", "ord1", 1)

InitGate ==
    /\ users = FreeAndProUsers
    /\ snippets = {}
    /\ comments = {}
    /\ stars = EmptyBag
    /\ executions = <<>>
    /\ nextSnippet = 1
    /\ nextComment = 1
    /\ last = [op |-> "none", status |-> "ok"]
    /\ paid = {"u2"}
    /\ streak = 0
    /\ cascade = Idle
    /\ store = InitialStore
    /\ inflight = NoCalls

NextGate ==
    \E c \in Callers, l \in AllLanguages, oc \in BOOLEAN : SaveExecution(c, l, oc)

SpecGate == InitGate /\ [][NextGate]_vars

\* A double click on the star: two starSnippet calls of one user in progress
\* at once, one store call at a time.
NextStarRace ==
    \/ \E u \in Identities : SyncUser(u, "e1", DisplayName(u))
    \/ CreateSnippet("u1")
    \/ \E k \in CallIds, s \in IssuedSnippetIds : StarSnippetReads(k, "u1", s)
    \/ \E k \in CallIds : StarSnippetWrites(k)

SpecStarRace == Init /\ [][NextStarRace]_vars

\* Sign-up from two paths: two syncUser calls in progress at once, one store
\* call at a time.
NextSignupRace ==
    \/ \E k \in CallIds, u \in Identities : SyncUserReads(k, u)
    \/ \E k \in CallIds : SyncUserWrites(k, "e1")

SpecSignupRace == Init /\ [][NextSignupRace]_vars

\* The editor: runs by a free user, a pro user and an anonymous visitor, with
\* every answer of the sandbox and the failure of the call.
NextRun ==
    \/ \E c \in Callers, l \in {"javascript", "python"} : HandleRun(c, l)
    \/ \E data \in Responses : SandboxAnswers(data)
    \/ SandboxFails
    \/ HandleRunSaves

SpecRun == InitGate /\ [][NextRun]_vars

\* the sandbox call ends: fetch resolves or rejects
SandboxEnds == (\E data \in Responses : SandboxAnswers(data)) \/ SandboxFails

\* The runs of the pro user alone, where every sandbox call ends.
NextRunFair ==
    \/ HandleRun("u2", "python")
    \/ \E data \in Responses : SandboxAnswers(data)
    \/ SandboxFails
    \/ HandleRunSaves

SpecRunFair == InitGate /\ [][NextRunFair]_vars /\ WF_vars(SandboxEnds)

\* The language gate on both sides: clicks on the selector and saveExecution
\* calls, by a free user, a pro user and a visitor, in every configured
\* language.
NextSelector ==
    \/ \E c \in Callers, l \in ConfiguredLanguages : SelectLanguage(c, l)
    \/ \E c \in Callers, l \in ConfiguredLanguages, oc \in BOOLEAN :
           SaveExecution(c, l, oc)

SpecSelector == InitGate /\ [][NextSelector]_vars

\* Statistics: getUserStats over every history of at most MaxScan records
\* of two pro users.
ProUsers ==
    UpgradeToProRows(
        UpgradeToProRows(
            SyncUserRows(SyncUserRows(<<>>, "u1", "e1", "Ann"), "u2", "e2", "Bob"),
            "e1", "cus1", "ord1", 1),
        "e2", "cus1", "ord1", 1)

InitStats ==
    /\ users = ProUsers
    /\ snippets = {}
    /\ comments = {}
    /\ stars = EmptyBag
    /\ executions \in UNION {[1..n -> [userId : Identities, language : ScanLanguages]]
                                : n \in 0..MaxScan}
    /\ nextSnippet = 1
    /\ nextComment = 1
    /\ last = [op |-> "none", status |-> "ok"]
    /\ paid = {"u1", "u2"}
    /\ streak = 0
    /\ cascade = Idle
    /\ store = InitialStore
    /\ inflight = NoCalls

NextStats == \E u \in Identities : GetUserStats(u)

SpecStats == InitStats /\ [][NextStats]_vars

-----------------------------------------------------------------------------
(* Properties of the snippet store (Spec) *)

\* C1: a run of n starSnippet calls by one user on one snippet, begun with
\* the pair unstarred, leaves the pair with one star row when n is odd and
\* with none when n is even (so never with two).
C1_ToggleParity ==
    streak > 0 => StarsOfPair(last.caller, last.snippetId) = streak % 2

\* C2: after a successful deleteSnippet(owner, S) the store holds neither S
\* nor a comment of S nor a star of S.
C2_DeleteSnippetCascades ==
    (last.op = "deleteSnippet" /\ last.status = "ok") =>
        /\ SnippetById(last.snippetId) = {}
        /\ CommentsOfSnippet(last.snippetId) = {}
        /\ StarsOfSnippet(last.snippetId) = {}

\* A successful deleteSnippet of a snippet that had a comment and a star.
C2_Witness ==
    /\ last.op = "deleteSnippet"
    /\ last.status = "ok"
    /\ last.comments > 0
    /\ last.stars > 0

\* C5: deleteSnippet by an authenticated caller who does not own the snippet
\* fails with "Not authorized" and leaves the snippet, its comments and its
\* stars as they were.
C5_ForeignDeleteIsRefused ==
    [][ ( /\ last'.op = "deleteSnippet"
          /\ last'.caller # NoIdentity
          /\ \E s \in snippets : s.id = last'.snippetId /\ s.userId # last'.caller )
        => ( /\ last'.status = "Not authorized"
             /\ UNCHANGED <<snippets, comments, stars>> ) ]_vars

\* A refused deleteSnippet on a snippet that has a comment and a star.
C5_Witness ==
    /\ last.op = "deleteSnippet"
    /\ last.status = "Not authorized"
    /\ SnippetById(last.snippetId) # {}
    /\ CommentsOfSnippet(last.snippetId) # {}
    /\ StarsOfSnippet(last.snippetId) # {}

\* C10: every comment and every star references a snippet that is in the
\* store.
C10_NoDanglingReferences ==
    /\ \A c \in comments : SnippetById(c.snippetId) # {}
    /\ \A t \in BagToSet(stars) : SnippetById(t.snippetId) # {}

-----------------------------------------------------------------------------
(* Properties of the entitlement rule (SpecGate, SpecEntitlement) *)

\* The free set as the claims give it.
ClaimedFreeSet == {"javascript", "c", "cpp", "python", "java"}

\* The call handled last was saveExecution by a caller who has a User row.
LastSaveByUser ==
    /\ last.op = "saveExecution"
    /\ UserByUserId(users, last.caller) # 0

LastSaver == users[UserByUserId(users, last.caller)]

\* The call handled last appended its Execution Record.
LastSaveAppended ==
    /\ executions # <<>>
    /\ executions[Len(executions)] =
           [userId |-> last.caller, language |-> last.language]

C4_EntitledRecordsOnly ==
    /\ [](\A i \in 1..Len(executions) :
              executions[i].language \notin ClaimedFreeSet =>
                  \E j \in 1..Len(users) :
                      users[j].userId = executions[i].userId /\ users[j].isPro)
    /\ [][ (last'.op = "saveExecution" /\ last'.status # "ok")
           => executions' = executions ]_vars

\* A refused saveExecution in a store that holds a record of a gated language.
C4_Witness ==
    /\ last.op = "saveExecution"
    /\ last.status = "Pro subscription required"
    /\ \E i \in 1..Len(executions) : executions[i].language = "rust"

\* C6: a payment webhook whose signature header differs from the digest of
\* the payload under the secret is rejected, and no table changes.
C6_BadSignatureRejected ==
    [][ ( /\ last'.op = "lemonSqueezyWebhook"
          /\ last'.signature # Hmac(WebhookSecret, last'.payload) )
        => ( /\ last'.status = "Invalid signature"
             /\ UNCHANGED <<users, snippets, comments, stars, executions>> ) ]_vars

\* A rejected order_created event that names the email of a free user.
C6_Witness ==
    /\ last.op = "lemonSqueezyWebhook"
    /\ last.status = "Invalid signature"
    /\ last.payload.event_name = "order_created"
    /\ \E i \in 1..Len(users) :
           users[i].email = last.payload.user_email /\ ~users[i].isPro

\* C7: saveExecution("rust") by a free user is refused; by a user whose
\* email an accepted order_created event carried, it succeeds and appends
\* its record.
C7_PaidUserRunsRust ==
    (LastSaveByUser /\ last.language = "rust") =>
        /\ last.caller \in paid => (last.status = "ok" /\ LastSaveAppended)
        /\ (last.caller \notin paid /\ ~LastSaver.isPro) =>
               last.status = "Pro subscription required"

\* C8: syncUser leaves exactly one row of its userId; when a row of the
\* userId exists the call changes nothing; when none exists it appends one
\* row, whose isPro is false.
C8_SyncUserIdempotent ==
    [][ last'.op = "syncUser" =>
          /\ Cardinality({i \in 1..Len(users') :
                             users'[i].userId = last'.userId}) = 1
          /\ (\E i \in 1..Len(users) : users[i].userId = last'.userId)
                 => users' = users
          /\ (\A i \in 1..Len(users) : users[i].userId # last'.userId)
                 => /\ Len(users') = Len(users) + 1
                    /\ SubSeq(users', 1, Len(users)) = users
                    /\ users'[Len(users')].isPro = FALSE ]_vars

\* A repeated syncUser, with another email, of a user who is pro by then.
C8_Witness ==
    /\ last.op = "syncUser"
    /\ \E i \in 1..Len(users) :
           /\ users[i].userId = last.userId
           /\ users[i].email # last.email
           /\ users[i].isPro

-----------------------------------------------------------------------------
(* Properties of getUserStats (SpecStats) *)

\* The Execution Records of the user the last query asked about.
Scanned == SelectSeq(executions, LAMBDA e : e.userId = last.userId)

TimesUsed(l)  == Cardinality({i \in 1..Len(Scanned) : Scanned[i].language = l})
FirstSeen(l)  == Min({i \in 1..Len(Scanned) : Scanned[i].language = l})
LanguagesUsed == {Scanned[i].language : i \in 1..Len(Scanned)}
MostUsed      == {l \in LanguagesUsed : \A m \in LanguagesUsed : TimesUsed(m) <= TimesUsed(l)}

-----------------------------------------------------------------------------
(* Failure cases of the snippet operations (Spec) *)

\* C13: addComment on a snippetId that no snippet has fails and inserts no
\* comment; addComment with no caller identity fails and inserts no comment.
C13_AddCommentChecksSnippet ==
    last.op = "addComment" =>
        /\ SnippetById(last.snippetId) = {} =>
               (last.status # "ok" /\ last.commentId = 0)
        /\ last.caller = NoIdentity =>
               (last.status # "ok" /\ last.commentId = 0)

\* C14: createSnippet with no identity fails with "Not authenticated", with
\* an identity that has no User row it fails on user.name, and neither call
\* inserts; otherwise it inserts exactly one row, owned by the caller and
\* carrying the name of the caller's User row.
C14_CreateSnippetOutcomes ==
    [][ last'.op = "createSnippet" =>
          LET caller == last'.caller
              i == UserByUserId(users, caller)
          IN  IF caller = NoIdentity
              THEN last'.status = "Not authenticated" /\ snippets' = snippets
              ELSE IF i = 0
              THEN last'.status = "TypeError" /\ snippets' = snippets
              ELSE /\ last'.status = "ok"
                   /\ Cardinality(snippets' \ snippets) = 1
                   /\ snippets \subseteq snippets'
                   /\ \A row \in snippets' \ snippets :
                          /\ row.id = last'.snippetId
                          /\ row.userId = caller
                          /\ row.userName = users[i].name ]_vars

\* A successful createSnippet by the second user, whose name is not the
\* first user's.
C14_Witness ==
    /\ last.op = "createSnippet"
    /\ last.status = "ok"
    /\ Len(users) = 2
    /\ \E s \in snippets :
           s.id = last.snippetId /\ s.userId = "u2" /\ s.userName = "Bob"

-----------------------------------------------------------------------------
(* Payment events and the isPro flag (SpecEntitlement, SpecAll) *)

\* C17: a validly signed order_created event whose email no User row has is
\* answered without failure and leaves the users table as it was; a row
\* that syncUser inserts, for that email or any other, has isPro = FALSE.
C17_UnmatchedPaymentDropped ==
    /\ [][ ( /\ last'.op = "lemonSqueezyWebhook"
              /\ last'.signature = Hmac(WebhookSecret, last'.payload)
              /\ last'.payload.event_name = "order_created"
              /\ UserByEmail(users, last'.payload.user_email) = 0 )
            => (last'.status = "ok" /\ users' = users) ]_vars
    /\ [][ (last'.op = "syncUser" /\ Len(users') > Len(users))
            => /\ users'[Len(users')].email = last'.email
               /\ users'[Len(users')].isPro = FALSE ]_vars

\* An accepted order_created event for an email that no row has, in a store
\* that holds a user of another email.
C17_Witness ==
    /\ last.op = "lemonSqueezyWebhook"
    /\ last.status = "ok"
    /\ last.payload.event_name = "order_created"
    /\ users # <<>>
    /\ UserByEmail(users, last.payload.user_email) = 0

-----------------------------------------------------------------------------
(* The language gate of the selector and of saveExecution (SpecSelector) *)

-----------------------------------------------------------------------------
(* deleteSnippet between its store calls (SpecCascade) *)

C12_SnippetRowGoesLast ==
    /\ [](cascade.phase > 0 =>
             /\ SnippetById(cascade.snippetId) # {}
             /\ ~ ( /\ SnippetById(cascade.snippetId) = {}
                    /\ \/ CommentsOfSnippet(cascade.snippetId) # {}
                       \/ StarsOfSnippet(cascade.snippetId) # {} ))
    /\ [][ ( /\ cascade.phase > 0
              /\ \A s \in snippets' : s.id # cascade.snippetId )
            => ( /\ cascade'.phase = 0
                 /\ last'.op = "deleteSnippet"
                 /\ last'.status = "ok" ) ]_vars

\* A deleteSnippet call that has deleted its comment and has a star and the
\* snippet row still to delete.
C12_Witness ==
    /\ cascade.phase > 0
    /\ cascade.removed > 0
    /\ CommentsOfSnippet(cascade.snippetId) = {}
    /\ StarsOfSnippet(cascade.snippetId) # {}
    /\ SnippetById(cascade.snippetId) # {}

-----------------------------------------------------------------------------
(* Frame of the isPro flag and of the execution records (SpecAll) *)

\* C18: only the upgrade that an accepted order_created event triggers
\* changes the isPro flag of an existing User row; syncUser, createSnippet,
\* deleteSnippet, starSnippet, addComment, deleteComment and saveExecution
\* leave every row's isPro as it was.
C18_OnlyUpgradeSetsIsPro ==
    [][ ( \/ last'.op # "lemonSqueezyWebhook"
          \/ /\ last'.op = "lemonSqueezyWebhook"
             /\ \/ last'.status # "ok"
                \/ last'.payload.event_name # "order_created" )
        => ( /\ Len(users') >= Len(users)
             /\ \A i \in 1..Len(users) :
                    /\ users'[i].userId = users[i].userId
                    /\ users'[i].isPro = users[i].isPro ) ]_vars

\* A repeated syncUser of a pro user who owns a snippet and has an
\* execution on record.
C18_Witness ==
    /\ last.op = "syncUser"
    /\ UserByUserId(users, last.userId) # 0
    /\ users[UserByUserId(users, last.userId)].isPro
    /\ \E s \in snippets : s.userId = last.userId
    /\ \E i \in 1..Len(executions) : executions[i].userId = last.userId

\* C19: every step leaves the execution records written so far in place
\* and unmodified: the table after the step begins with the table before it.
C19_ExecutionsAppendOnly ==
    [][ /\ Len(executions') >= Len(executions)
        /\ SubSeq(executions', 1, Len(executions)) = executions ]_vars

\* A user's second execution is recorded after the first, and a snippet has
\* been deleted and a payment accepted since the first was written.
C19_Witness ==
    /\ last.op = "saveExecution"
    /\ last.status = "ok"
    /\ Len(executions) = 2
    /\ executions[1].userId = executions[2].userId
    /\ nextSnippet > 1
    /\ snippets = {}
    /\ \E i \in 1..Len(users) : users[i].isPro

-----------------------------------------------------------------------------
(* The identity-provider webhook (SpecClerk) *)

\* C21: a /clerk-webhook request whose signature does not verify is answered
\* with an error status, runs syncUser not at all and leaves the users table
\* as it was; a verified user.created event runs syncUser once, for the
\* event's user id, after which that id has exactly one row.
C21_ClerkWebhookFailsClosed ==
    [][ last'.op = "clerkWebhook" =>
          IF last'.signature # SvixSignature(ClerkWebhookSecret, last'.evt)
          THEN /\ last'.status >= 400
               /\ last'.synced = <<>>
               /\ users' = users
          ELSE /\ last'.status = 200
               /\ last'.evt.type = "user.created" =>
                      /\ last'.synced = <<last'.evt.id>>
                      /\ Cardinality({i \in 1..Len(users') :
                                         users'[i].userId = last'.evt.id}) = 1
               /\ last'.evt.type # "user.created" =>
                      (last'.synced = <<>> /\ users' = users) ]_vars

\* A rejected user.created event for a user who has no row.
C21_Witness ==
    /\ last.op = "clerkWebhook"
    /\ last.status >= 400
    /\ last.evt.type = "user.created"
    /\ UserByUserId(users, last.evt.id) = 0
    /\ users # <<>>

-----------------------------------------------------------------------------
(* Frames of starSnippet, deleteSnippet and upgradeToPro *)

\* C27: starSnippet(U, S) changes the star rows of the pair (U, S) alone:
\* every other row of the stars table is there after the call as often as
\* before it.
C27_ToggleTouchesOwnPairOnly ==
    [][ last'.op = "starSnippet" =>
          \A t \in BagToSet(stars) \cup BagToSet(stars') :
              t # StarRow(last'.caller, last'.snippetId) =>
                  CopiesIn(t, stars') = CopiesIn(t, stars) ]_vars

\* C28: a successful deleteSnippet(owner, S) removes S and the comments and
\* stars of S and nothing else: every other snippet, every comment and star
\* of another snippet, the users table and the execution records are as
\* before.
C28_DeleteSnippetFrame ==
    [][ (last'.op = "deleteSnippet" /\ last'.status = "ok") =>
          /\ snippets' = {s \in snippets : s.id # last'.snippetId}
          /\ comments' = {c \in comments : c.snippetId # last'.snippetId}
          /\ \A t \in BagToSet(stars) \cup BagToSet(stars') :
                 CopiesIn(t, stars') =
                     IF t.snippetId = last'.snippetId THEN 0
                     ELSE CopiesIn(t, stars)
          /\ UNCHANGED <<users, executions>> ]_vars

\* A successful deleteSnippet of a snippet with a comment, next to another
\* snippet that keeps its comment or its star, with an execution on record.
C28_Witness ==
    /\ last.op = "deleteSnippet"
    /\ last.status = "ok"
    /\ last.comments > 0
    /\ \E s \in snippets :
           CommentsOfSnippet(s.id) # {} \/ StarsOfSnippet(s.id) # {}
    /\ executions # <<>>

\* The rows of the users table that a step changed.
ChangedUsers == {i \in 1..Len(users) : users'[i] # users[i]}

\* C30: the upgradeToPro call of an accepted order_created event changes at
\* most one User row; a row it changes carries the event's email and gets
\* isPro = TRUE, proSince and the event's customer and order ids, and
\* nothing else of it changes; when a row carries the email, a row with
\* the email is pro afterwards; no row appears or disappears, and snippets,
\* comments, stars and execution records are as before.
C30_UpgradeToProFrame ==
    [][ ( /\ last'.op = "lemonSqueezyWebhook"
          /\ last'.status = "ok"
          /\ last'.payload.event_name = "order_created" )
        => /\ Len(users') = Len(users)
           /\ Cardinality(ChangedUsers) <= 1
           /\ \A i \in ChangedUsers :
                  /\ users[i].email = last'.payload.user_email
                  /\ users'[i] = [users[i] EXCEPT
                         !.isPro = TRUE,
                         !.proSince = users'[i].proSince,
                         !.lemonSqueezyCustomerId = last'.payload.customer_id,
                         !.lemonSqueezyOrderId = last'.payload.id]
                  /\ users'[i].proSince \in Times
           /\ UserByEmail(users, last'.payload.user_email) # 0 =>
                  \E i \in 1..Len(users') :
                      /\ users'[i].email = last'.payload.user_email
                      /\ users'[i].isPro
                      /\ users'[i].lemonSqueezyOrderId = last'.payload.id
           /\ UNCHANGED <<snippets, comments, stars, executions>> ]_vars

\* An accepted order_created event in a store where two rows carry its
\* email: one is pro, the other is not, and an execution is on record.
C30_Witness ==
    /\ last.op = "lemonSqueezyWebhook"
    /\ last.status = "ok"
    /\ last.payload.event_name = "order_created"
    /\ \E i, j \in 1..Len(users) :
           /\ users[i].email = last.payload.user_email
           /\ users[j].email = last.payload.user_email
           /\ users[i].isPro
           /\ ~users[j].isPro
    /\ executions # <<>>

-----------------------------------------------------------------------------
(* Monotonic entitlement (SpecAll) *)

\* C29: no step removes a User row or turns a row's isPro from TRUE to
\* FALSE, and in every state each saveExecution that was recorded would
\* pass its checks again, for the same user and language.
C29_EntitlementIsMonotonic ==
    /\ [][ /\ Len(users') >= Len(users)
            /\ \A i \in 1..Len(users) :
                   /\ users'[i].userId = users[i].userId
                   /\ users[i].isPro => users'[i].isPro ]_vars
    /\ [](\A i \in 1..Len(executions) :
              SaveExecutionOutcome(users, executions[i].userId,
                                   executions[i].language, TRUE) = "ok")

\* A user's execution in a gated language is recorded a second time, after
\* a second user has signed up and a snippet has been created and deleted.
C29_Witness ==
    /\ last.op = "saveExecution"
    /\ last.status = "ok"
    /\ last.language = "rust"
    /\ Len(executions) = 2
    /\ executions[1] = executions[2]
    /\ Len(users) = 2
    /\ nextSnippet > 1
    /\ snippets = {}

\* the answer has a section whose exit code is present and not zero
StageFailed(section) == section.present /\ section.code # 0

\* C24: runCode reports a failure only for an answer whose compile.code or
\* run.code is present and not zero. An answer with no compile section and
\* run.code = 0 is a success: error is null and output is the trimmed run
\* output. A compile.code or run.code that is not zero gives the error of
\* that stage (its stderr, else its output) and an empty output.
C24_RunCodeClassification ==
    (store.answered /\ store.data.run.present) =>
        LET compile == store.data.compile
            run == store.data.run
        IN  /\ (~compile.present /\ run.code = 0) =>
                    /\ store.error = Null
                    /\ store.output = Trim(run.output)
            /\ StageFailed(compile) =>
                    /\ store.error = Or(compile.stderr, compile.output)
                    /\ store.output = ""
            /\ (~StageFailed(compile) /\ StageFailed(run)) =>
                    /\ store.error = Or(run.stderr, run.output)
                    /\ store.output = ""
            /\ store.error # Null => (StageFailed(compile) \/ StageFailed(run))

C25_SaveOnlyAfterRunBySignedIn ==
    /\ [][ ((last' # last \/ executions' # executions)
             /\ last'.op = "saveExecution") =>
               /\ store.pc = "saving"
               /\ ~store.isRunning
               /\ store.fresh
               /\ store.executionResult.set
               /\ store.user \in Identities
               /\ last'.caller = store.user
               /\ last'.language = store.language ]_vars
    /\ [](\A i \in 1..Len(executions) : executions[i].userId \in Identities)

\* a signed-in user's run has been recorded after its result was stored
C25_Witness ==
    /\ store.pc = "idle"
    /\ store.fresh
    /\ store.user \in Identities
    /\ last.op = "saveExecution"
    /\ last.status = "ok"
    /\ Len(executions) > 0

=============================================================================
